---------------------------- MODULE Spec2Model ----------------------------
(***************************************************************************)
(* Model of clashBot: the match clock and elixir meter                     *)
(* (src/src/gameState.py, class GameState), the game board                 *)
(* (src/src/gameBoard.py, class GameBoard) and the capture loop that       *)
(* drives the board (src/src/windowCap.py).                                *)
(*                                                                         *)
(* Units.  The source works with floating-point seconds and elixir points. *)
(* The model uses exact integer arithmetic:                                *)
(*   - time is counted in centiseconds (cs), so 2.8 s = 280, 0.93 s = 93,  *)
(*     120 s = 12000;                                                      *)
(*   - elixir is counted in ElixirUnit-ths of a point, ElixirUnit being a  *)
(*     common multiple of the three rates, so that elapsed / rate is an    *)
(*     exact integer for every elapsed time on the centisecond grid.       *)
(* Floating-point rounding is therefore not modelled: every equality below *)
(* is an equality of the exact rational values.                            *)
(*                                                                         *)
(* Clock.  time.time() is the variable now.  One call of a method reads    *)
(* the clock at one instant: all time.time() reads inside one call return  *)
(* now.  The clock never goes backwards.                                   *)
(***************************************************************************)
EXTENDS Integers, FiniteSets, Sequences, TLC

VARIABLES
    now,                 \* the wall clock, time.time(), in cs
    match_start_time,    \* GameState.match_start_time (None or an instant)
    current_elixir,      \* GameState.current_elixir, in 1/ElixirUnit points
    last_elixir_update,  \* GameState.last_elixir_update (None or an instant)
    is_match_active,     \* GameState.is_match_active
    op,                  \* the method called last
    arg,                 \* its argument (spend_elixir's amount), else 0
    ret,                 \* its return value (None when it returns nothing)
    before,              \* current_elixir and last_elixir_update before that call
    spent,               \* spend_elixir was called since the last start_match
    lifecycle            \* "fresh", "started", "ended" (end_match called since the
                         \* last start_match), "ended_again" (called twice or more)

VARIABLES
    game_board,          \* the GameBoard object (NoBoard while there is none)
    monitor,             \* windowCap's capture region of the current cycle
    detections,          \* the detections of the current frame
    detection_summary,   \* what process_detections returned for that frame
    call                 \* the last call of a GameBoard method: name, input, output

fields == <<match_start_time, current_elixir, last_elixir_update, is_match_active>>

\* The variables of the match tracker and those of the board.
tracker == <<now, match_start_time, current_elixir, last_elixir_update,
             is_match_active, op, arg, ret, before, spent, lifecycle>>

board == <<game_board, monitor, detections, detection_summary, call>>

vars == <<tracker, board>>

----------------------------------------------------------------------------
(* Program constants, gameState.py lines 11-24, in the model's units.       *)

NORMAL_ELIXIR_RATE == 280
DOUBLE_ELIXIR_RATE == 140
TRIPLE_ELIXIR_RATE == 93

DOUBLE_ELIXIR_START == 12000
REGULAR_TIME_END == 18000
TRIPLE_ELIXIR_START == 24000
MATCH_MAX_DURATION == 30000

\* One elixir point.  Every rate divides it, so elapsed / rate is exact.
ElixirUnit == NORMAL_ELIXIR_RATE * TRIPLE_ELIXIR_RATE

STARTING_ELIXIR == 5 * ElixirUnit
MAX_ELIXIR == 10 * ElixirUnit

\* Python's None, for the two optional instants and for "returns nothing".
None == -1

\* The board variables while no board exists and no frame was captured.
NoBoard ==
    [monitor_width |-> None, monitor_height |-> None,
     cards_in_hand |-> <<>>, troops_in_arena |-> <<>>]

NoMonitor == [width |-> None, height |-> None]

NoSummary ==
    [cards_in_hand |-> <<>>, cards_filtered |-> <<>>, troops_on_board |-> <<>>]

NoCall == [fn |-> "none", in |-> <<>>, out |-> <<>>, of |-> <<>>]

BoardAbsent ==
    /\ game_board = NoBoard
    /\ monitor = NoMonitor
    /\ detections = <<>>
    /\ detection_summary = NoSummary
    /\ call = NoCall

----------------------------------------------------------------------------
(* Bounds of the model.                                                     *)

\* spend_elixir is called with amounts of -MaxAmount .. MaxAmount points.
MaxAmount == 2

\* Negative spends raise current_elixir without limit; the model stops
\* following them above ElixirCeiling points.
ElixirCeiling == 11

\* The shortest distance between two clock readings near a phase boundary (cs).
PollGap == 10

\* Where each rate phase starts, with the phase's rate; the last entry is the
\* instant at which the reported match time stops growing.
PhaseStarts ==
    {<<0, NORMAL_ELIXIR_RATE>>, <<DOUBLE_ELIXIR_START, DOUBLE_ELIXIR_RATE>>,
     <<REGULAR_TIME_END, DOUBLE_ELIXIR_RATE>>,
     <<TRIPLE_ELIXIR_START, TRIPLE_ELIXIR_RATE>>,
     <<MATCH_MAX_DURATION, TRIPLE_ELIXIR_RATE>>}

\* The instants at which the clock is read: just before each phase start, at
\* it, and one elixir point's worth of time after it.
Instants ==
    {t \in UNION {{p[1] - PollGap, p[1], p[1] + p[2]} : p \in PhaseStarts} :
        t >= 0}

Amounts == {a * ElixirUnit : a \in (0 - MaxAmount)..MaxAmount}

Min(a, b) == IF a <= b THEN a ELSE b

----------------------------------------------------------------------------
(* Queries.                                                                 *)

\* get_current_match_time without the cap at MATCH_MAX_DURATION.
get_current_match_time_uncapped ==
    IF ~is_match_active \/ match_start_time = None
    THEN 0
    ELSE now - match_start_time

\* GameState.get_current_match_time
get_current_match_time ==
    IF ~is_match_active \/ match_start_time = None
    THEN 0
    ELSE LET elapsed == now - match_start_time
         IN  Min(elapsed, MATCH_MAX_DURATION)

\* get_match_phase reporting 'ended' once the maximum duration has elapsed.
get_match_phase_timeout ==
    IF ~is_match_active \/ get_current_match_time >= MATCH_MAX_DURATION
    THEN "ended"
    ELSE LET elapsed == get_current_match_time
         IN  IF elapsed < DOUBLE_ELIXIR_START THEN "normal"
             ELSE IF elapsed < REGULAR_TIME_END THEN "double"
             ELSE IF elapsed < TRIPLE_ELIXIR_START THEN "overtime_double"
             ELSE "overtime_triple"

\* GameState.get_match_phase
get_match_phase ==
    IF ~is_match_active
    THEN "ended"
    ELSE LET elapsed == get_current_match_time
         IN  IF elapsed < DOUBLE_ELIXIR_START THEN "normal"
             ELSE IF elapsed < REGULAR_TIME_END THEN "double"
             ELSE IF elapsed < TRIPLE_ELIXIR_START THEN "overtime_double"
             ELSE "overtime_triple"

\* get_elixir_rate switching to the triple rate at REGULAR_TIME_END.
elixir_rate_at_early_triple(elapsed) ==
    IF elapsed < DOUBLE_ELIXIR_START THEN NORMAL_ELIXIR_RATE
    ELSE IF elapsed < REGULAR_TIME_END THEN DOUBLE_ELIXIR_RATE
    ELSE TRIPLE_ELIXIR_RATE

\* GameState.get_elixir_rate, as a function of the elapsed match time
elixir_rate_at(elapsed) ==
    IF elapsed < DOUBLE_ELIXIR_START THEN NORMAL_ELIXIR_RATE
    ELSE IF elapsed < TRIPLE_ELIXIR_START THEN DOUBLE_ELIXIR_RATE
    ELSE TRIPLE_ELIXIR_RATE

\* GameState.get_elixir_rate
get_elixir_rate == elixir_rate_at(get_current_match_time)

\* GameState.update_elixir, its arithmetic: the elixir after accruing from
\* instant last to instant t at the given rate, starting from elixir.
accrued(elixir, last, t, elixir_rate) ==
    LET elapsed == t - last
        elixir_gained == (elapsed * ElixirUnit) \div elixir_rate
    IN  Min(MAX_ELIXIR, elixir + elixir_gained)

----------------------------------------------------------------------------
(* Methods: the change each makes to the fields, and its return value.      *)

\* GameState.__init__
TrackerInit ==
    /\ now = 0
    /\ match_start_time = None
    /\ current_elixir = STARTING_ELIXIR
    /\ last_elixir_update = None
    /\ is_match_active = FALSE
    /\ op = "__init__"
    /\ arg = 0
    /\ ret = None
    /\ before = [elixir |-> STARTING_ELIXIR, update |-> None]
    /\ spent = FALSE
    /\ lifecycle = "fresh"

\* A new tracker; no board exists.
Init ==
    /\ TrackerInit
    /\ BoardAbsent

\* GameState.start_match
start_match ==
    /\ match_start_time' = now
    /\ last_elixir_update' = now
    /\ current_elixir' = STARTING_ELIXIR
    /\ is_match_active' = TRUE
    /\ ret' = None

\* end_match toggling the flag instead of clearing it.
end_match_toggle ==
    /\ is_match_active' = ~is_match_active
    /\ UNCHANGED <<match_start_time, current_elixir, last_elixir_update>>
    /\ ret' = None

\* GameState.end_match
end_match ==
    /\ is_match_active' = FALSE
    /\ UNCHANGED <<match_start_time, current_elixir, last_elixir_update>>
    /\ ret' = None

\* update_elixir that does not move last_elixir_update: every call accrues
\* again the time since the first one.
update_elixir_no_stamp ==
    IF ~is_match_active
    THEN UNCHANGED <<current_elixir, last_elixir_update>>
    ELSE IF last_elixir_update = None
    THEN /\ last_elixir_update' = now
         /\ UNCHANGED current_elixir
    ELSE /\ current_elixir' =
                accrued(current_elixir, last_elixir_update, now, get_elixir_rate)
         /\ UNCHANGED last_elixir_update

\* update_elixir without the check of is_match_active.
update_elixir_unguarded ==
    IF last_elixir_update = None
    THEN /\ last_elixir_update' = now
         /\ UNCHANGED current_elixir
    ELSE /\ current_elixir' =
                accrued(current_elixir, last_elixir_update, now, get_elixir_rate)
         /\ last_elixir_update' = now

\* GameState.update_elixir: the change to current_elixir and last_elixir_update
update_elixir ==
    IF ~is_match_active
    THEN UNCHANGED <<current_elixir, last_elixir_update>>
    ELSE IF last_elixir_update = None
    THEN /\ last_elixir_update' = now
         /\ UNCHANGED current_elixir
    ELSE /\ current_elixir' =
                accrued(current_elixir, last_elixir_update, now, get_elixir_rate)
         /\ last_elixir_update' = now

\* GameState.get_current_elixir
get_current_elixir ==
    /\ update_elixir
    /\ ret' = current_elixir'
    /\ UNCHANGED <<match_start_time, is_match_active>>

\* spend_elixir that needs strictly more elixir than the amount.
spend_elixir_strict(amount) ==
    /\ IF current_elixir > amount
       THEN /\ current_elixir' = current_elixir - amount
            /\ ret' = TRUE
       ELSE /\ UNCHANGED current_elixir
            /\ ret' = FALSE
    /\ UNCHANGED <<match_start_time, last_elixir_update, is_match_active>>

\* GameState.spend_elixir
spend_elixir(amount) ==
    /\ IF current_elixir >= amount
       THEN /\ current_elixir' = current_elixir - amount
            /\ ret' = TRUE
       ELSE /\ UNCHANGED current_elixir
            /\ ret' = FALSE
    /\ UNCHANGED <<match_start_time, last_elixir_update, is_match_active>>

\* The f"{x:.1f}" of an elixir value: the nearest tenth of a point.
Tenths(elixir) == (20 * elixir + ElixirUnit) \div (2 * ElixirUnit)

\* GameState.get_formatted_time: minutes and seconds of the match time
get_formatted_time ==
    LET elapsed == get_current_match_time
    IN  <<elapsed \div 6000, (elapsed % 6000) \div 100>>

\* GameState.get_status_string: the values the string shows
get_status_string ==
    /\ ret' = IF ~is_match_active
              THEN [text |-> "No active match"]
              ELSE [time |-> get_formatted_time,
                    elixir |-> Tenths(current_elixir),
                    phase |-> get_match_phase,
                    rate |-> get_elixir_rate]
    /\ UNCHANGED fields

----------------------------------------------------------------------------
(* Calls.  Each records which method ran, with what argument, and the       *)
(* values of current_elixir and last_elixir_update it found.  A state with  *)
(* op = m is the state right after a call of m, at instant now.             *)

Called(name, a) ==
    /\ op' = name
    /\ arg' = a
    /\ before' = [elixir |-> current_elixir, update |-> last_elixir_update]
    /\ UNCHANGED board

Call_start_match ==
    /\ start_match
    /\ Called("start_match", 0)
    /\ lifecycle' = "started"
    /\ spent' = FALSE
    /\ UNCHANGED now

Call_end_match ==
    /\ end_match
    /\ Called("end_match", 0)
    /\ lifecycle' = IF lifecycle \in {"ended", "ended_again"}
                    THEN "ended_again" ELSE "ended"
    /\ UNCHANGED <<now, spent>>

Call_update_elixir ==
    /\ update_elixir
    /\ ret' = None
    /\ UNCHANGED <<match_start_time, is_match_active>>
    /\ Called("update_elixir", 0)
    /\ UNCHANGED <<now, spent, lifecycle>>

Call_get_current_elixir ==
    /\ get_current_elixir
    /\ Called("get_current_elixir", 0)
    /\ UNCHANGED <<now, spent, lifecycle>>

Call_spend_elixir ==
    \E amount \in Amounts :
        /\ current_elixir - amount <= ElixirCeiling * ElixirUnit
        /\ spend_elixir(amount)
        /\ Called("spend_elixir", amount)
        /\ spent' = TRUE
        /\ UNCHANGED <<now, lifecycle>>

Call_get_status_string ==
    /\ get_status_string
    /\ Called("get_status_string", 0)
    /\ UNCHANGED <<now, spent, lifecycle>>

\* Wall-clock time passes between two calls.
Tick ==
    /\ \E t \in Instants : t > now /\ now' = t
    /\ Called("tick", 0)
    /\ ret' = None
    /\ UNCHANGED <<fields, spent, lifecycle>>

Next ==
    \/ Call_start_match
    \/ Call_end_match
    \/ Call_update_elixir
    \/ Call_get_current_elixir
    \/ Call_spend_elixir
    \/ Call_get_status_string
    \/ Tick

Spec == Init /\ [][Next]_vars

----------------------------------------------------------------------------
(* The game board, src/src/gameBoard.py.                                    *)
(*                                                                          *)
(* Units.  Pixel coordinates given to the board are counted in half pixels  *)
(* (x2 = 2 * x), because the centre of a bounding box with integer corners  *)
(* is a multiple of 0.5; the pixel coordinates the board returns are whole  *)
(* pixels, as int() makes them.  The tile size W / 9 by H / 16 is kept as    *)
(* the exact fraction <<numerator, denominator>>.  A method that returns     *)
(* None returns <<>> here.                                                  *)

\* The grid and the hand: the literals 9, 16 and 4 of gameBoard.py.
COLS == 9
ROWS == 16
HAND_SIZE == 4

NoResult == <<>>

\* cardClasses.BlankSpace, Card and Troop
BlankSpace == [kind |-> "BlankSpace"]
Card(name, cost) == [kind |-> "Card", name |-> name, cost |-> cost]
Troop(name, color) == [kind |-> "Troop", name |-> name, color |-> color]

\* GameBoard.clear_hand and GameBoard.clear_arena: the values they assign
EmptyHand == [position \in 0..(HAND_SIZE - 1) |-> BlankSpace]
EmptyArena == [y \in 0..(ROWS - 1) |-> [x \in 0..(COLS - 1) |-> BlankSpace]]

\* GameBoard.__init__
GameBoard(monitor_width, monitor_height) ==
    [cards_in_hand |-> EmptyHand,
     troops_in_arena |-> EmptyArena,
     monitor_width |-> monitor_width,
     monitor_height |-> monitor_height,
     tile_width |-> <<monitor_width, COLS>>,
     tile_height |-> <<monitor_height, ROWS>>]

\* GameBoard.convert_image_cord_to_tile, of the pixel (x2 / 2, y2 / 2)
convert_image_cord_to_tile(gb, x2, y2) ==
    IF x2 < 0 \/ x2 > 2 * gb.monitor_width THEN NoResult
    ELSE IF y2 < 0 \/ y2 > 2 * gb.monitor_height THEN NoResult
    ELSE LET tile_x == (x2 * gb.tile_width[2]) \div (2 * gb.tile_width[1])
             tile_y == (y2 * gb.tile_height[2]) \div (2 * gb.tile_height[1])
         IN  <<Min(tile_x, COLS - 1), Min(tile_y, ROWS - 1)>>

\* convert_tile_to_image_cord returning the tile's far corner, not its centre.
convert_tile_to_image_cord_corner(gb, tile_x, tile_y) ==
    IF tile_x < 0 \/ tile_x >= COLS THEN NoResult
    ELSE IF tile_y < 0 \/ tile_y >= ROWS THEN NoResult
    ELSE LET pixel_x ==
                 ((tile_x + 1) * gb.tile_width[1]) \div gb.tile_width[2]
             pixel_y ==
                 ((tile_y + 1) * gb.tile_height[1]) \div gb.tile_height[2]
         IN  <<pixel_x, pixel_y>>

\* convert_tile_to_image_cord accepting the index one past the last tile.
convert_tile_to_image_cord_past(gb, tile_x, tile_y) ==
    IF tile_x < 0 \/ tile_x > COLS THEN NoResult
    ELSE IF tile_y < 0 \/ tile_y > ROWS THEN NoResult
    ELSE LET pixel_x ==
                 ((2 * tile_x + 1) * gb.tile_width[1]) \div (2 * gb.tile_width[2])
             pixel_y ==
                 ((2 * tile_y + 1) * gb.tile_height[1]) \div (2 * gb.tile_height[2])
         IN  <<pixel_x, pixel_y>>

\* GameBoard.convert_tile_to_image_cord: int((tile + 0.5) * tile size)
convert_tile_to_image_cord(gb, tile_x, tile_y) ==
    IF tile_x < 0 \/ tile_x >= COLS THEN NoResult
    ELSE IF tile_y < 0 \/ tile_y >= ROWS THEN NoResult
    ELSE LET pixel_x ==
                 ((2 * tile_x + 1) * gb.tile_width[1]) \div (2 * gb.tile_width[2])
             pixel_y ==
                 ((2 * tile_y + 1) * gb.tile_height[1]) \div (2 * gb.tile_height[2])
         IN  <<pixel_x, pixel_y>>

----------------------------------------------------------------------------
(* The coordinate mapper on its own: a board of some size, one call of a    *)
(* conversion on it and, after convert_tile_to_image_cord, the conversion   *)
(* back of its result.  The conversions leave the board as it is, so calls  *)
(* after the first would find the same board again.                         *)

\* Boards are MaxWidth and MaxHeight pixels at most, or 900 by 1600.
MaxWidth == 20
MaxHeight == 34

Widths == 1..MaxWidth \cup {900}
Heights == 1..MaxHeight \cup {1600}

\* Tile indices given to convert_tile_to_image_cord: the grid and one index
\* beyond it on each side.
TileInputs == {<<x, y>> : x \in -1..COLS, y \in -1..ROWS}

\* Coordinates (in half pixels) given to convert_image_cord_to_tile, along
\* one axis of length size: the two ends, the middle, and next to each end.
AxisInputs(size) == {-1, 0, 1, size, 2 * size - 1, 2 * size, 2 * size + 1}

TrackerIdle == UNCHANGED tracker

InitMapper ==
    /\ TrackerInit
    /\ game_board \in {GameBoard(w, h) : w \in Widths, h \in Heights}
    /\ monitor = NoMonitor
    /\ detections = <<>>
    /\ detection_summary = NoSummary
    /\ call = NoCall

Call_convert_tile_to_image_cord ==
    /\ call = NoCall
    /\ \E t \in TileInputs :
           call' = [fn |-> "convert_tile_to_image_cord",
                    in |-> t,
                    out |-> convert_tile_to_image_cord(game_board, t[1], t[2]),
                    of |-> <<>>]
    /\ UNCHANGED <<game_board, monitor, detections, detection_summary>>
    /\ TrackerIdle

\* A call on any coordinate of the input set.
Call_convert_image_cord_to_tile ==
    /\ call = NoCall
    /\ \E x2 \in AxisInputs(game_board.monitor_width),
          y2 \in AxisInputs(game_board.monitor_height) :
           call' = [fn |-> "convert_image_cord_to_tile",
                    in |-> <<x2, y2>>,
                    out |-> convert_image_cord_to_tile(game_board, x2, y2),
                    of |-> <<>>]
    /\ UNCHANGED <<game_board, monitor, detections, detection_summary>>
    /\ TrackerIdle

\* A call on the pixel that convert_tile_to_image_cord has just returned for
\* the tile call.in; the tile is kept in of.
Call_convert_back ==
    /\ call.fn = "convert_tile_to_image_cord"
    /\ call.out # NoResult
    /\ call' = [fn |-> "convert_image_cord_to_tile",
                in |-> <<2 * call.out[1], 2 * call.out[2]>>,
                out |-> convert_image_cord_to_tile(
                            game_board, 2 * call.out[1], 2 * call.out[2]),
                of |-> call.in]
    /\ UNCHANGED <<game_board, monitor, detections, detection_summary>>
    /\ TrackerIdle

NextMapper ==
    \/ Call_convert_tile_to_image_cord
    \/ Call_convert_image_cord_to_tile
    \/ Call_convert_back

SpecMapper == InitMapper /\ [][NextMapper]_vars

----------------------------------------------------------------------------
(* Detections and the hand filter.                                          *)
(*                                                                          *)
(* A detection is its class name, a sequence of characters, and its         *)
(* bounding box <<x1, y1, x2, y2>> in whole pixels.  The centre of a box is *)
(* kept in half pixels (x1 + x2), its area in square pixels.  The products  *)
(* with 0.6, 0.1 and 0.15 are compared exactly, as fractions.               *)

Abs(a) == IF a >= 0 THEN a ELSE 0 - a

\* str.startswith
StartsWith(string, prefix) ==
    /\ Len(string) >= Len(prefix)
    /\ SubSeq(string, 1, Len(prefix)) = prefix

\* string[n:]
DropFirst(string, n) == SubSeq(string, n + 1, Len(string))

\* list.sort(key=..): the elements of list in ascending order of their keys,
\* elements with equal keys in the order they had (the sort is stable).
SortedByKey(list, keys) ==
    LET n == Len(list)
        rank(i) == Cardinality({j \in 1..n : \/ keys[j] < keys[i]
                                             \/ keys[j] = keys[i] /\ j < i})
    IN  [place \in 1..n |-> list[CHOOSE i \in 1..n : rank(i) = place - 1]]

\* sorted(values)[len(values) // 2]
Median(values) == SortedByKey(values, values)[(Len(values) \div 2) + 1]

\* process_detections: the dictionary it builds for a card detection
card_info(class_name, bbox) ==
    LET center_x == bbox[1] + bbox[3]
        center_y == bbox[2] + bbox[4]
        bbox_width == bbox[3] - bbox[1]
        bbox_height == bbox[4] - bbox[2]
    IN  [name |-> DropFirst(class_name, 4),
         pixel_coords |-> <<center_x, center_y>>,
         bbox |-> bbox,
         width |-> bbox_width,
         height |-> bbox_height,
         area |-> bbox_width * bbox_height,
         center_x |-> center_x,
         center_y |-> center_y]

\* The three tests with the comparison of not_far_left turned round.
is_valid_card_left(gb, card, median_area, median_y) ==
    LET is_normal_size == 10 * card.area >= 6 * median_area
        is_similar_height ==
            10 * Abs(card.center_y - median_y) < 2 * gb.monitor_height
        not_far_left == 100 * card.center_x < 30 * gb.monitor_width
    IN  is_normal_size /\ is_similar_height /\ not_far_left

\* filter_cards_in_hand: the three tests a card must pass
is_valid_card(gb, card, median_area, median_y) ==
    LET is_normal_size == 10 * card.area >= 6 * median_area
        is_similar_height ==
            10 * Abs(card.center_y - median_y) < 2 * gb.monitor_height
        not_far_left == 100 * card.center_x > 30 * gb.monitor_width
    IN  is_normal_size /\ is_similar_height /\ not_far_left

\* filter_cards_in_hand: the cards that pass the three tests, in the order
\* given
valid_cards_of(gb, cards_detected) ==
    LET areas == [i \in 1..Len(cards_detected) |-> cards_detected[i].area]
        median_area == Median(areas)
        y_positions ==
            [i \in 1..Len(cards_detected) |-> cards_detected[i].center_y]
        median_y == Median(y_positions)
        Keep(card) == is_valid_card(gb, card, median_area, median_y)
    IN  SelectSeq(cards_detected, Keep)

\* filter_cards_in_hand: the HAND_SIZE largest of more than HAND_SIZE valid
\* cards
keep_largest(valid_cards) ==
    IF Len(valid_cards) > HAND_SIZE
    THEN SubSeq(SortedByKey(valid_cards,
                            [i \in 1..Len(valid_cards) |->
                                0 - valid_cards[i].area]),
                1, HAND_SIZE)
    ELSE valid_cards

\* filter_cards_in_hand without the early return for HAND_SIZE cards or fewer.
filter_cards_in_hand_always(gb, cards_detected) ==
    IF Len(cards_detected) = 0
    THEN cards_detected
    ELSE keep_largest(valid_cards_of(gb, cards_detected))

\* GameBoard.filter_cards_in_hand
filter_cards_in_hand(gb, cards_detected) ==
    IF Len(cards_detected) <= HAND_SIZE
    THEN cards_detected
    ELSE keep_largest(valid_cards_of(gb, cards_detected))

----------------------------------------------------------------------------
(* The hand filter on its own: a 900 by 1600 board, a list of card          *)
(* candidates, and one call of filter_cards_in_hand on it.                  *)

\* At most MaxCards candidates are given to the filter.
MaxCards == 5

CardK == <<"c", "a", "r", "d", "k">>
CardG == <<"c", "a", "r", "d", "g">>

\* The card detections a frame is made of: two hand cards of 10 x 10, a
\* larger one, the small preview card at the far left, a small card among
\* the hand cards, a full-size card at the far left, and one far above.
CardDetections ==
    {[class_name |-> CardK, xyxy |-> <<300, 1450, 310, 1460>>],
     [class_name |-> CardG, xyxy |-> <<500, 1450, 510, 1460>>],
     [class_name |-> CardK, xyxy |-> <<700, 1449, 712, 1461>>],
     [class_name |-> CardG, xyxy |-> <<50, 1500, 58, 1505>>],
     [class_name |-> CardK, xyxy |-> <<600, 1452, 610, 1457>>],
     [class_name |-> CardG, xyxy |-> <<100, 1450, 110, 1460>>],
     [class_name |-> CardK, xyxy |-> <<400, 1000, 410, 1010>>]}

Candidates == {card_info(d.class_name, d.xyxy) : d \in CardDetections}

SeqsUpTo(S, n) == UNION {[1..k -> S] : k \in 0..n}

InitFilter ==
    /\ TrackerInit
    /\ game_board = GameBoard(900, 1600)
    /\ monitor = NoMonitor
    /\ detections = <<>>
    /\ detection_summary = NoSummary
    /\ call \in {[fn |-> "input", in |-> cards, out |-> <<>>, of |-> <<>>] :
                    cards \in SeqsUpTo(Candidates, MaxCards)}

Call_filter_cards_in_hand ==
    /\ call.fn = "input"
    /\ call' = [fn |-> "filter_cards_in_hand",
                in |-> call.in,
                out |-> filter_cards_in_hand(game_board, call.in),
                of |-> <<>>]
    /\ UNCHANGED <<game_board, monitor, detections, detection_summary>>
    /\ TrackerIdle

NextFilter == Call_filter_cards_in_hand

SpecFilter == InitFilter /\ [][NextFilter]_vars

----------------------------------------------------------------------------
(* Reconstruction of the board from the detections of one frame.            *)

Blue == <<"b", "l", "u", "e">>
Red == <<"r", "e", "d">>
CardPrefix == <<"c", "a", "r", "d">>

\* GameBoard.clear_arena and GameBoard.clear_hand
clear_arena(gb) == [gb EXCEPT !.troops_in_arena = EmptyArena]
clear_hand(gb) == [gb EXCEPT !.cards_in_hand = EmptyHand]

\* GameBoard.add_card_to_hand
add_card_to_hand(gb, card, position) ==
    IF 0 <= position /\ position < HAND_SIZE
    THEN [gb EXCEPT !.cards_in_hand[position] = card]
    ELSE gb

\* add_troop_to_arena leaving an occupied cell as it is.
add_troop_to_arena_if_empty(gb, troop, x_cord, y_cord) ==
    IF /\ 0 <= x_cord /\ x_cord < COLS /\ 0 <= y_cord /\ y_cord < ROWS
       /\ gb.troops_in_arena[y_cord][x_cord] = BlankSpace
    THEN [gb EXCEPT !.troops_in_arena[y_cord][x_cord] = troop]
    ELSE gb

\* GameBoard.add_troop_to_arena
add_troop_to_arena(gb, troop, x_cord, y_cord) ==
    IF 0 <= x_cord /\ x_cord < COLS /\ 0 <= y_cord /\ y_cord < ROWS
    THEN [gb EXCEPT !.troops_in_arena[y_cord][x_cord] = troop]
    ELSE gb

\* process_detections: the dictionary it builds for a troop detection
troop_info(class_name, bbox, tile_coords) ==
    [name |-> IF StartsWith(class_name, Blue)
              THEN DropFirst(class_name, 4)
              ELSE DropFirst(class_name, 3),
     color |-> IF StartsWith(class_name, Blue) THEN "blue" ELSE "red",
     pixel_coords |-> <<bbox[1] + bbox[3], bbox[2] + bbox[4]>>,
     tile_coords |-> tile_coords]

\* process_detections: the body of the loop over the detections, on the
\* board and the two lists built so far
detection_step(st, detection) ==
    LET class_name == detection.class_name
        bbox == detection.xyxy
        center_x == bbox[1] + bbox[3]
        center_y == bbox[2] + bbox[4]
        tile_coords == convert_image_cord_to_tile(st.gb, center_x, center_y)
        info == troop_info(class_name, bbox, tile_coords)
    IN  IF StartsWith(class_name, CardPrefix)
        THEN [st EXCEPT !.cards_detected =
                            Append(@, card_info(class_name, bbox))]
        ELSE IF StartsWith(class_name, Blue) \/ StartsWith(class_name, Red)
        THEN IF tile_coords # NoResult
             THEN [st EXCEPT
                      !.troops_detected = Append(@, info),
                      !.gb = add_troop_to_arena(@,
                                 Troop(info.name, info.color),
                                 tile_coords[1], tile_coords[2])]
             ELSE st
        ELSE st

\* process_detections: the loop over the first n detections
RECURSIVE detection_loop(_, _, _)
detection_loop(gb, frame, n) ==
    IF n = 0
    THEN [gb |-> gb, cards_detected |-> <<>>, troops_detected |-> <<>>]
    ELSE detection_step(detection_loop(gb, frame, n - 1), frame[n])

\* The hand cards in the order the filter returned them.
sort_by_center_x_not(cards) == cards

\* cards_in_hand.sort(key=lambda card: card['center_x'])
sort_by_center_x(cards) ==
    SortedByKey(cards, [i \in 1..Len(cards) |-> cards[i].center_x])

\* process_detections: the loop writing the first n hand cards
RECURSIVE hand_loop(_, _, _)
hand_loop(gb, cards_in_hand, n) ==
    IF n = 0
    THEN gb
    ELSE LET done == hand_loop(gb, cards_in_hand, n - 1)
             position == n - 1
         IN  IF position < HAND_SIZE
             THEN add_card_to_hand(done, Card(cards_in_hand[n].name, 0),
                                   position)
             ELSE done

\* c in cards: equality of dictionaries is equality of their values
In(c, cards) == \E i \in 1..Len(cards) : cards[i] = c

\* GameBoard.process_detections: the board it leaves and the summary it
\* returns
process_detections(gb, frame) ==
    LET scanned == detection_loop(gb, frame, Len(frame))
        cards_detected == scanned.cards_detected
        cards_in_hand ==
            IF cards_detected # <<>>
            THEN sort_by_center_x(filter_cards_in_hand(scanned.gb,
                                                       cards_detected))
            ELSE <<>>
        NotInHand(c) == ~In(c, cards_in_hand)
        cards_filtered ==
            IF cards_detected # <<>>
            THEN SelectSeq(cards_detected, NotInHand)
            ELSE <<>>
    IN  [gb |-> hand_loop(scanned.gb, cards_in_hand, Len(cards_in_hand)),
         summary |-> [cards_in_hand |-> cards_in_hand,
                      cards_filtered |-> cards_filtered,
                      troops_on_board |-> scanned.troops_detected]]

\* The capture loop's reconstruction cycle without the two clears.
reconstruct_no_clear(gb, frame) == process_detections(gb, frame)

\* The capture loop's reconstruction cycle: clear_arena, clear_hand,
\* process_detections
reconstruct(gb, frame) ==
    process_detections(clear_hand(clear_arena(gb)), frame)

----------------------------------------------------------------------------
(* One reconstruction cycle on a 900 by 1600 board, for every frame of up   *)
(* to MaxDetections detections.                                             *)

MaxDetections == 5

\* Three cards (two hand cards and the preview card at the far left), two
\* troops on tile (4, 5), one on tile (1, 2), one outside the region, and a
\* detection that is neither card nor troop.
FrameDetections ==
    {[class_name |-> CardK, xyxy |-> <<300, 1450, 310, 1460>>],
     [class_name |-> CardG, xyxy |-> <<500, 1450, 510, 1460>>],
     [class_name |-> <<"c", "a", "r", "d", "e">>,
      xyxy |-> <<50, 1500, 58, 1505>>],
     [class_name |-> Blue \o <<"k">>, xyxy |-> <<410, 510, 430, 550>>],
     [class_name |-> Red \o <<"g">>, xyxy |-> <<440, 520, 480, 580>>],
     [class_name |-> Blue \o <<"a">>, xyxy |-> <<100, 200, 120, 240>>],
     [class_name |-> Red \o <<"g">>, xyxy |-> <<890, 100, 930, 140>>],
     [class_name |-> <<"t", "o", "w", "e", "r">>,
      xyxy |-> <<400, 100, 500, 200>>]}

InitProcess ==
    /\ TrackerInit
    /\ game_board = GameBoard(900, 1600)
    /\ monitor = NoMonitor
    /\ detections \in SeqsUpTo(FrameDetections, MaxDetections)
    /\ detection_summary = NoSummary
    /\ call = NoCall

Call_process_detections ==
    /\ call = NoCall
    /\ LET result == reconstruct(game_board, detections)
       IN  /\ game_board' = result.gb
           /\ detection_summary' = result.summary
    /\ call' = [fn |-> "process_detections", in |-> detections,
                out |-> <<>>, of |-> <<>>]
    /\ UNCHANGED <<monitor, detections>>
    /\ TrackerIdle

NextProcess == Call_process_detections

SpecProcess == InitProcess /\ [][NextProcess]_vars

----------------------------------------------------------------------------
(* The capture loop: each cycle reads the window's size, derives the        *)
(* capture region from it, creates the board on the first cycle, captures   *)
(* a frame of that region and reconstructs the board from its detections.   *)

\* A frame of the loop has at most MaxLoopDetections detections.
MaxLoopDetections == 2

\* The sizes <<width, height>> the tracked window takes.
WindowSizes == {<<1333, 1650>>, <<883, 850>>}

\* monitor = {...}: the capture region of a window of the given size
monitor_of(window) == [width |-> window[1] - 433, height |-> window[2] - 50]

\* A card, two troops on tile (4, 5) of a 900 by 1600 region, and two troops
\* near the top left corner.
LoopDetections ==
    {[class_name |-> CardK, xyxy |-> <<300, 1450, 310, 1460>>],
     [class_name |-> Blue \o <<"k">>, xyxy |-> <<410, 510, 430, 550>>],
     [class_name |-> Red \o <<"g">>, xyxy |-> <<440, 520, 480, 580>>],
     [class_name |-> Blue \o <<"a">>, xyxy |-> <<100, 200, 120, 240>>],
     [class_name |-> Red \o <<"g">>, xyxy |-> <<120, 230, 140, 250>>]}

\* The detections of a frame lie inside the captured image.
InsideImage(frame, region) ==
    \A i \in 1..Len(frame) :
        /\ 0 <= frame[i].xyxy[1] /\ frame[i].xyxy[3] <= region.width
        /\ 0 <= frame[i].xyxy[2] /\ frame[i].xyxy[4] <= region.height

InitLoop ==
    /\ TrackerInit
    /\ BoardAbsent
    /\ call = NoCall

\* One pass of the while loop.
Cycle ==
    \E window \in WindowSizes :
      \E frame \in SeqsUpTo(LoopDetections, MaxLoopDetections) :
        LET region == monitor_of(window)
            gb == IF game_board = NoBoard
                  THEN GameBoard(region.width, region.height)
                  ELSE game_board
            result == reconstruct(gb, frame)
        IN  /\ InsideImage(frame, region)
            /\ monitor' = region
            /\ detections' = frame
            /\ game_board' = result.gb
            /\ detection_summary' = result.summary
            /\ call' = [fn |-> "cycle", in |-> frame, out |-> <<>>,
                        of |-> detections]
            /\ TrackerIdle

NextLoop == Cycle

SpecLoop == InitLoop /\ [][NextLoop]_vars

----------------------------------------------------------------------------
(* Properties.                                                              *)

Updating == {"update_elixir", "get_current_elixir"}

\* C1: after any sequence of start_match, end_match, update_elixir /
\* get_current_elixir and spend_elixir calls, with any amounts and a clock
\* that never goes backwards, current_elixir is within [0, 10].
C1_ElixirInRange ==
    /\ 0 <= current_elixir
    /\ current_elixir <= MAX_ELIXIR

\* C2: accrual is independent of polling cadence.  In an active match with
\* no spends, the value obtained by an update at instant T, whatever updates
\* came before it, is the value a single update at T gives on the state
\* start_match left, for every T up to 300 s after the start.
C2_CadenceIndependent ==
    ( /\ is_match_active
      /\ ~spent
      /\ op \in Updating
      /\ now - match_start_time <= MATCH_MAX_DURATION )
    => current_elixir =
           accrued(STARTING_ELIXIR, match_start_time, now,
                   elixir_rate_at(Min(now - match_start_time, MATCH_MAX_DURATION)))

\* C2 witness: a second or later update of a match without spends, made
\* before the meter is full, so that the earlier updates' gains count.
C2_Witness ==
    /\ is_match_active
    /\ ~spent
    /\ op \in Updating
    /\ before.update > match_start_time
    /\ before.update < now
    /\ before.elixir > STARTING_ELIXIR
    /\ current_elixir < MAX_ELIXIR

\* C3: spend_elixir with a negative amount is rejected: it reports failure
\* and leaves current_elixir unchanged.
C3_NegativeRejected ==
    [][ (op' = "spend_elixir" /\ arg' < 0)
        => (ret' = FALSE /\ current_elixir' = current_elixir) ]_vars

\* C4: for every amount >= 0, spend_elixir(amount) with amount >
\* current_elixir returns failure and leaves current_elixir unchanged; with
\* amount <= current_elixir it returns success and current_elixir decreases
\* by exactly amount.
C4_SpendContract ==
    [][ (op' = "spend_elixir" /\ arg' >= 0)
        => IF arg' > current_elixir
           THEN ret' = FALSE /\ current_elixir' = current_elixir
           ELSE ret' = TRUE /\ current_elixir' = current_elixir - arg' ]_vars

\* C4 witness: a refused spend of a positive amount on a meter that earlier
\* successful spends have brought below the starting value.
C4_Witness ==
    /\ op = "spend_elixir"
    /\ arg > 0
    /\ ret = FALSE
    /\ current_elixir = before.elixir
    /\ current_elixir < STARTING_ELIXIR

\* C5: while the match is active and the clock does not go backwards, each
\* update_elixir call leaves current_elixir greater than or equal to its value
\* before the call, and never above 10.0.
C5_UpdateMonotonic ==
    [][ (is_match_active /\ op' \in Updating)
        => (current_elixir' >= current_elixir /\ current_elixir' <= MAX_ELIXIR)
      ]_vars

\* The phase table of the match clock, in cs of elapsed time:
\* [0,120) normal, [120,180) double, [180,240) overtime_double, from 240 s
\* overtime_triple.
TablePhase(t) ==
    IF t < 12000 THEN "normal"
    ELSE IF t < 18000 THEN "double"
    ELSE IF t < 24000 THEN "overtime_double"
    ELSE "overtime_triple"

\* The rate of each phase, in cs per elixir point: 2.8 s, 1.4 s, 0.93 s.
TableRate(phase) ==
    IF phase = "normal" THEN 280
    ELSE IF phase \in {"double", "overtime_double"} THEN 140
    ELSE 93

\* An update in an active match, made exactly one rate after the update
\* before it, both in the same phase.
C6_Case ==
    /\ is_match_active
    /\ op' \in Updating
    /\ last_elixir_update > match_start_time
    /\ LET phase == TablePhase(now - match_start_time)
       IN  /\ TablePhase(last_elixir_update - match_start_time) = phase
           /\ now - last_elixir_update = TableRate(phase)

C7_PhaseAndRate ==
    is_match_active
    => LET t == now - match_start_time
       IN  /\ get_match_phase = TablePhase(t)
           /\ get_elixir_rate = TableRate(TablePhase(t))
           /\ get_current_match_time = Min(t, 30000)

\* C7 witness: an active match more than 300 s after its start.
C7_Witness ==
    /\ is_match_active
    /\ now - match_start_time > 30000
    /\ get_current_match_time = 30000
    /\ get_match_phase = "overtime_triple"

Ended == {"ended", "ended_again"}

\* C8 as stated: the phase query reports Ended only in states reached
\* through an explicit end_match call: never because of elapsed time and
\* never on a tracker on which end_match has not been called, including
\* before the first start_match.
C8_EndedOnlyAfterEnd ==
    get_match_phase = "ended" => lifecycle \in Ended

\* C8 as amended: the phase query reports Ended exactly when the match is
\* not active, that is after an end_match with no start_match since, or on a
\* tracker on which start_match was never called; never because of elapsed
\* time.
C8_EndedIffNotStarted ==
    get_match_phase = "ended" <=> lifecycle # "started"

\* C8 witness: a started match more than 300 s old, not reported as ended.
C8_Witness ==
    /\ lifecycle = "started"
    /\ now - match_start_time > 30000
    /\ get_match_phase # "ended"

\* C9 as stated: a second end_match leaves the state exactly as the first
\* left it, and once end_match has been called no later operation makes the
\* match active again.
C9_EndIsFinal ==
    [][ /\ (lifecycle \in Ended /\ op' = "end_match") => UNCHANGED fields
        /\ lifecycle \in Ended => ~is_match_active' ]_vars

\* C9 as amended: a second end_match leaves the state exactly as the first
\* left it, and once end_match has been called no later operation other than
\* start_match makes the match active again.
C9_EndIsFinalUntilStart ==
    [][ /\ (lifecycle \in Ended /\ op' = "end_match") => UNCHANGED fields
        /\ (lifecycle \in Ended /\ op' # "start_match") => ~is_match_active'
      ]_vars

\* C9 witness: end_match called a second time on an ended match that had
\* been started.
C9_Witness ==
    /\ lifecycle = "ended_again"
    /\ op = "end_match"
    /\ match_start_time # None
    /\ ~is_match_active

\* C10: while the match is inactive, update_elixir and get_current_elixir
\* are no-ops: current_elixir and last_elixir_update keep their values
\* however much wall-clock time passes.
C10_InactiveNoOp ==
    [][ (~is_match_active /\ op' \in Updating)
        => UNCHANGED <<current_elixir, last_elixir_update>> ]_vars

\* C10 witness: an update on an ended match, more than 120 s after the last
\* accrual, on a meter that is not full.
C10_Witness ==
    /\ ~is_match_active
    /\ op \in Updating
    /\ last_elixir_update # None
    /\ now - last_elixir_update > 12000
    /\ current_elixir < MAX_ELIXIR
    /\ current_elixir = before.elixir
    /\ last_elixir_update = before.update

Reading == {"get_current_elixir", "spend_elixir", "get_status_string"}

\* C18: every operation that reads the elixir value (get_current_elixir,
\* spend_elixir, get_status_string) first brings accrual up to the current
\* instant, so the value it uses is the time-accurate one; in particular
\* spend_elixir(amount) succeeds whenever the elixir accrued up to the moment
\* of the call is >= amount.
C18_ReadsAreTimeAccurate ==
    [][ (is_match_active /\ op' \in Reading)
        => LET fresh == accrued(current_elixir, last_elixir_update, now,
                                get_elixir_rate)
           IN  /\ op' = "get_current_elixir" => ret' = fresh
               /\ (op' = "spend_elixir" /\ arg' >= 0 /\ fresh >= arg')
                      => ret' = TRUE
               /\ op' = "get_status_string" => ret'.elixir = Tenths(fresh)
      ]_vars

\* C11 as stated: for every capture-region size W, H > 0 and every tile
\* t = (tx, ty) with 0 <= tx <= 8 and 0 <= ty <= 15,
\* convert_image_cord_to_tile(convert_tile_to_image_cord(t)) returns t.
C11_RoundTrip ==
    (call.fn = "convert_image_cord_to_tile" /\ call.of # <<>>)
    => call.out = call.of

\* C11 as amended: the round trip returns t for every size with W >= 15 and
\* H >= 30; below that, int() can put the centre of a tile less than two
\* pixels wide or high into the tile before it.
C11_RoundTripFromMinimumSize ==
    ( /\ call.fn = "convert_image_cord_to_tile"
      /\ call.of # <<>>
      /\ game_board.monitor_width >= 15
      /\ game_board.monitor_height >= 30 )
    => call.out = call.of

\* C11 witness: the last tile of a 15 by 30 board, mapped to its centre
\* pixel and back.
C11_Witness ==
    /\ call.fn = "convert_image_cord_to_tile"
    /\ call.of = <<8, 15>>
    /\ call.out = <<8, 15>>
    /\ game_board.monitor_width = 15
    /\ game_board.monitor_height = 30

\* A coordinate pair (in half pixels) outside [0, W] x [0, H].
OutsideRegion(p, gb) ==
    \/ p[1] < 0 \/ p[1] > 2 * gb.monitor_width
    \/ p[2] < 0 \/ p[2] > 2 * gb.monitor_height

\* A tile index pair outside [0, 9) x [0, 16).
OutsideGrid(t) ==
    \/ t[1] < 0 \/ t[1] >= 9
    \/ t[2] < 0 \/ t[2] >= 16

\* C12: convert_image_cord_to_tile returns no-result for every pixel
\* coordinate with x outside [0, W] or y outside [0, H], and
\* convert_tile_to_image_cord returns no-result for every tile index outside
\* [0, 9) x [0, 16); neither raises, and neither changes the board.
C12_OutOfRangeGivesNoResult ==
    [][ /\ call'.fn \in {"convert_image_cord_to_tile",
                         "convert_tile_to_image_cord"}
             => game_board' = game_board
        /\ (call'.fn = "convert_image_cord_to_tile"
              /\ OutsideRegion(call'.in, game_board))
             => call'.out = NoResult
        /\ (call'.fn = "convert_tile_to_image_cord" /\ OutsideGrid(call'.in))
             => call'.out = NoResult ]_vars

\* C12 witness: a refused tile index one past the last column, on a board
\* that also refuses a pixel just beyond its right edge.
C12_Witness ==
    /\ call.fn = "convert_tile_to_image_cord"
    /\ call.in[1] = 9
    /\ call.in[2] \in 0..15
    /\ call.out = NoResult
    /\ convert_image_cord_to_tile(
           game_board, 2 * game_board.monitor_width + 1, 0) = NoResult

\* C13: filter_cards_in_hand returns its input unchanged (same candidates,
\* same order) when given at most 4 candidates, and returns at most 4
\* candidates for every input of more than 4.
C13_FilterSize ==
    call.fn = "filter_cards_in_hand"
    => /\ Len(call.in) <= 4 => call.out = call.in
       /\ Len(call.in) > 4 => Len(call.out) <= 4

\* C13 witness: five candidates that all pass the filter's tests, cut to
\* four.
C13_Witness ==
    /\ call.fn = "filter_cards_in_hand"
    /\ Len(call.in) = 5
    /\ \A i \in 1..5 : /\ call.in[i].area >= 100
                       /\ call.in[i].center_x > 270
                       /\ call.in[i].center_y > 2800
    /\ Len(call.out) = 4

\* The list without its i-th element.
Without(list, i) == SubSeq(list, 1, i - 1) \o SubSeq(list, i + 1, Len(list))

Areas(cards) == [i \in 1..Len(cards) |-> cards[i].area]

\* The two middle values of four.
LowerMedian(values) == SortedByKey(values, values)[Len(values) \div 2]
UpperMedian(values) == SortedByKey(values, values)[(Len(values) \div 2) + 1]

\* Candidate i of five is below 60% of the other four's median area,
\* whichever of the two middle values the median is, and left of 0.15 * W.
C14_Outlier(cards, i) ==
    /\ 10 * cards[i].area < 6 * LowerMedian(Areas(Without(cards, i)))
    /\ 100 * cards[i].center_x < 30 * game_board.monitor_width

\* C14 as stated: given 5 hand candidates of which one has area below 60% of
\* the other four's median area and center_x left of 0.15 * W,
\* filter_cards_in_hand excludes exactly that one and keeps the other four.
C14_ExcludesTheOutlier ==
    (call.fn = "filter_cards_in_hand" /\ Len(call.in) = 5)
    => \A i \in 1..5 :
           (C14_Outlier(call.in, i)
              /\ \A j \in 1..5 : C14_Outlier(call.in, j) => j = i)
           => call.out = Without(call.in, i)

\* Candidate j passes the filter's tests among the five: its area is at
\* least 60% of the median area of the five, its center_y is less than
\* 0.1 * H from the median center_y of the five, and its center_x is right
\* of 0.15 * W.
C14_Genuine(cards, j) ==
    /\ 10 * cards[j].area >= 6 * UpperMedian(Areas(cards))
    /\ 10 * Abs(cards[j].center_y
                - UpperMedian([k \in 1..Len(cards) |-> cards[k].center_y]))
          < 2 * game_board.monitor_height
    /\ 100 * cards[j].center_x > 30 * game_board.monitor_width

\* C14 as amended: it does so provided each of the other four passes the
\* filter's tests among the five.
C14_ExcludesTheOutlierAmongGenuine ==
    (call.fn = "filter_cards_in_hand" /\ Len(call.in) = 5)
    => \A i \in 1..5 :
           ( /\ 10 * call.in[i].area
                  < 6 * UpperMedian(Areas(Without(call.in, i)))
             /\ 100 * call.in[i].center_x < 30 * game_board.monitor_width
             /\ \A j \in 1..5 \ {i} : C14_Genuine(call.in, j) )
           => call.out = Without(call.in, i)

\* C14 witness: areas 100, 100, 40, 100, 100, the small one at the far left
\* and third in the list; the filter returns the other four.
C14_Witness ==
    /\ call.fn = "filter_cards_in_hand"
    /\ Len(call.in) = 5
    /\ Areas(call.in) = <<100, 100, 40, 100, 100>>
    /\ call.in[3].center_x < 270
    /\ \A j \in {1, 2, 4, 5} : C14_Genuine(call.in, j)
    /\ call.out = Without(call.in, 3)

Range(list) == {list[i] : i \in 1..Len(list)}

\* The number of times x occurs in list.
Count(x, list) == Cardinality({i \in 1..Len(list) : list[i] = x})

\* The hand candidates of a frame, one per card detection, in frame order.
IsCard(d) == StartsWith(d.class_name, CardPrefix)
HandCandidates(frame) ==
    LET cards == SelectSeq(frame, IsCard)
    IN  [i \in 1..Len(cards) |-> card_info(cards[i].class_name,
                                           cards[i].xyxy)]

\* The survivors of the hand filter for a frame.
Survivors(frame) ==
    IF HandCandidates(frame) = <<>>
    THEN <<>>
    ELSE filter_cards_in_hand(game_board, HandCandidates(frame))

\* C15: after a reconstruction cycle with N surviving hand cards, hand slots
\* 0..N-1 hold those cards in ascending center_x order, slots N..3 are
\* empty, and summary.cards_in_hand lists the same cards in the same order.
C15_HandLeftToRight ==
    call.fn = "process_detections"
    => LET hand == detection_summary.cards_in_hand
           N == Len(Survivors(call.in))
       IN  /\ Len(hand) = N
           /\ \A c \in Range(Survivors(call.in)) :
                  Count(c, hand) = Count(c, Survivors(call.in))
           /\ \A i \in 1..N : \A j \in 1..N :
                  i < j => hand[i].center_x <= hand[j].center_x
           /\ \A position \in 0..(HAND_SIZE - 1) :
                  game_board.cards_in_hand[position] =
                      IF position < N
                      THEN Card(hand[position + 1].name, 0)
                      ELSE BlankSpace

\* C15 witness: three cards detected from right to left, written to slots 0,
\* 1 and 2 from left to right, slot 3 empty.
C15_Witness ==
    /\ call.fn = "process_detections"
    /\ Len(HandCandidates(call.in)) = 3
    /\ \A i \in 1..2 : HandCandidates(call.in)[i].center_x
                           > HandCandidates(call.in)[i + 1].center_x
    /\ \A i \in 1..2 : detection_summary.cards_in_hand[i].center_x
                           < detection_summary.cards_in_hand[i + 1].center_x
    /\ \A position \in 0..2 :
           game_board.cards_in_hand[position] =
               Card(detection_summary.cards_in_hand[position + 1].name, 0)
    /\ game_board.cards_in_hand[3] = BlankSpace

\* The troop detections of a frame that lie inside the region, in frame
\* order, each with its tile.
IsTroop(d) ==
    /\ ~IsCard(d)
    /\ StartsWith(d.class_name, Blue) \/ StartsWith(d.class_name, Red)
TileOf(d) ==
    convert_image_cord_to_tile(game_board, d.xyxy[1] + d.xyxy[3],
                               d.xyxy[2] + d.xyxy[4])
OnBoard(d) == IsTroop(d) /\ TileOf(d) # NoResult

\* C16: within one frame, when several troop detections map to the same
\* arena tile, the cell holds the troop of the detection that comes last in
\* the frame, and every such detection is listed in
\* summary.troops_on_board.
C16_LastWriteWins ==
    call.fn = "process_detections"
    => LET frame == call.in
           listed == SelectSeq(frame, OnBoard)
       IN  /\ \A i \in 1..Len(frame) :
                  (OnBoard(frame[i])
                     /\ \A j \in (i + 1)..Len(frame) :
                            OnBoard(frame[j])
                                => TileOf(frame[j]) # TileOf(frame[i]))
                  => game_board.troops_in_arena[TileOf(frame[i])[2]]
                                               [TileOf(frame[i])[1]]
                        = Troop(troop_info(frame[i].class_name,
                                           frame[i].xyxy, <<>>).name,
                                troop_info(frame[i].class_name,
                                           frame[i].xyxy, <<>>).color)
           /\ detection_summary.troops_on_board =
                  [i \in 1..Len(listed) |->
                      troop_info(listed[i].class_name, listed[i].xyxy,
                                 TileOf(listed[i]))]

\* C16 witness: two different troops detected on tile (4, 5); the cell holds
\* the second and the summary lists both.
C16_Witness ==
    /\ call.fn = "process_detections"
    /\ \E i \in 1..Len(call.in) : \E j \in 1..Len(call.in) :
           /\ i < j
           /\ OnBoard(call.in[i]) /\ OnBoard(call.in[j])
           /\ TileOf(call.in[i]) = <<4, 5>> /\ TileOf(call.in[j]) = <<4, 5>>
           /\ call.in[i].class_name = Blue \o <<"k">>
           /\ call.in[j].class_name = Red \o <<"g">>
           /\ \A k \in (j + 1)..Len(call.in) : ~OnBoard(call.in[k])
    /\ game_board.troops_in_arena[5][4] = Troop(<<"g">>, "red")
    /\ Len(detection_summary.troops_on_board) >= 2

\* C17: for every frame, summary.cards_in_hand and summary.cards_filtered
\* partition the frame's hand candidates, counted per detection: every
\* candidate appears in exactly one of the two lists, and cards_filtered
\* holds exactly those that filter_cards_in_hand excluded.
C17_HandAndFilteredPartition ==
    call.fn = "process_detections"
    => \A c \in Range(HandCandidates(call.in)) :
           /\ Count(c, detection_summary.cards_in_hand)
                 + Count(c, detection_summary.cards_filtered)
                 = Count(c, HandCandidates(call.in))
           /\ Count(c, detection_summary.cards_filtered)
                 = Count(c, HandCandidates(call.in))
                     - Count(c, Survivors(call.in))

\* C19: after every cycle of the capture loop, every non-empty arena cell
\* holds a troop detected in that frame (on that cell) and every non-empty
\* hand slot holds a card detected in that frame: nothing written in an
\* earlier frame is still on the board.
C19_BoardShowsCurrentFrameOnly ==
    call.fn = "cycle"
    => /\ \A y \in 0..(ROWS - 1) : \A x \in 0..(COLS - 1) :
              game_board.troops_in_arena[y][x] # BlankSpace
              => \E i \in 1..Len(call.in) :
                     /\ OnBoard(call.in[i])
                     /\ TileOf(call.in[i]) = <<x, y>>
                     /\ game_board.troops_in_arena[y][x] =
                            Troop(troop_info(call.in[i].class_name,
                                             call.in[i].xyxy, <<>>).name,
                                  troop_info(call.in[i].class_name,
                                             call.in[i].xyxy, <<>>).color)
       /\ \A position \in 0..(HAND_SIZE - 1) :
              game_board.cards_in_hand[position] # BlankSpace
              => \E i \in 1..Len(call.in) :
                     /\ IsCard(call.in[i])
                     /\ game_board.cards_in_hand[position] =
                            Card(DropFirst(call.in[i].class_name, 4), 0)

\* C19 witness: the frame before this cycle's had a troop on a tile and a
\* card, this cycle's frame has a troop on another tile only; the earlier
\* tile and the hand are empty again.
C19_Witness ==
    /\ call.fn = "cycle"
    /\ \E i \in 1..Len(call.of) :
           /\ OnBoard(call.of[i])
           /\ game_board.troops_in_arena[TileOf(call.of[i])[2]]
                                        [TileOf(call.of[i])[1]] = BlankSpace
    /\ \E i \in 1..Len(call.of) : IsCard(call.of[i])
    /\ game_board.cards_in_hand = EmptyHand
    /\ game_board.troops_in_arena # EmptyArena

\* C20: in every cycle of the capture loop, the pixel-to-tile mapping uses
\* the tile size and bounds derived from that cycle's capture-region width
\* and height, also when the region's size changed since an earlier cycle.
C20_MappingFollowsRegion ==
    call.fn = "cycle"
    => /\ game_board.monitor_width = monitor.width
       /\ game_board.monitor_height = monitor.height
       /\ game_board.tile_width = <<monitor.width, COLS>>
       /\ game_board.tile_height = <<monitor.height, ROWS>>
       /\ detection_summary.troops_on_board =
              reconstruct(GameBoard(monitor.width, monitor.height),
                          call.in).summary.troops_on_board

=============================================================================
